---- MODULE Spec2Model ----
(***************************************************************************)
(* Model of desmos-animate (src/main.js): the session bootstrap (setup),   *)
(* the frame sampler (captureFrames), the video assembler (createVideo)    *)
(* and the render cycle that ties them together.                           *)
(*                                                                         *)
(* JavaScript runs each piece of code between two awaits to completion, so *)
(* every action below is one such piece: the code from a call or a         *)
(* callback up to the next await.  The host calculator, the image decoder, *)
(* the timers and the recorder are the environment: their callbacks are    *)
(* separate actions that may fire in any order the platform allows.        *)
(*                                                                         *)
(* Numbers are JavaScript Numbers without rounding: exact rationals        *)
(* together with NaN, +Infinity and -Infinity.                             *)
(***************************************************************************)
EXTENDS Integers, Sequences, FiniteSets, TLC

(***************************************************************************)
(* Bounds of the model.                                                    *)
(***************************************************************************)
MaxFrames == 4      \* settings.frames ranges over 1..MaxFrames
MaxCycles == 2      \* render cycles started in one behaviour
MaxSetups == 2      \* calls of setup in one behaviour
MaxNotices == 4     \* calls of the animate observer in one behaviour
MaxRepeats == 1     \* calls of an observer of evaluate after its first one

(***************************************************************************)
(* Numbers.  [n, d] with d > 0 and gcd(n, d) = 1 is the rational n/d;      *)
(* d = 0 holds the special values: 0/0 is NaN, 1/0 and -1/0 the infinities.*)
(***************************************************************************)
Abs(x) == IF x < 0 THEN -x ELSE x

Sign(x) == IF x < 0 THEN -1 ELSE IF x > 0 THEN 1 ELSE 0

\* (a value drawn from a one-element set is computed once)
RECURSIVE GCD(_, _)
GCD(a, b) == IF b = 0 THEN a ELSE CHOOSE g \in {GCD(b, r) : r \in {a % b}} : TRUE

Rat(n, d) ==
    IF d = 0 THEN [n |-> Sign(n), d |-> 0]
    ELSE CHOOSE x \in {[n |-> (Sign(d) * n) \div g, d |-> (Sign(d) * d) \div g] :
                           g \in {GCD(Abs(n), Abs(d))}} : TRUE

Int2Num(k) == [n |-> k, d |-> 1]

NaN == [n |-> 0, d |-> 0]

IsNaN(x) == x.d = 0 /\ x.n = 0

NumAdd(x, y) ==
    IF IsNaN(x) \/ IsNaN(y) THEN NaN
    ELSE IF x.d = 0 /\ y.d = 0 THEN (IF x.n = y.n THEN x ELSE NaN)
    ELSE IF x.d = 0 THEN x
    ELSE IF y.d = 0 THEN y
    ELSE Rat(x.n * y.d + y.n * x.d, x.d * y.d)

NumNeg(x) == [n |-> -x.n, d |-> x.d]

NumSub(x, y) == NumAdd(x, NumNeg(y))

NumMul(x, y) ==
    IF IsNaN(x) \/ IsNaN(y) THEN NaN
    ELSE Rat(x.n * y.n, x.d * y.d)

NumDiv(x, y) ==
    IF IsNaN(x) \/ IsNaN(y) THEN NaN
    ELSE IF x.d = 0 /\ y.d = 0 THEN NaN
    ELSE IF y.d = 0 THEN Int2Num(0)
    ELSE IF y.n = 0 THEN Rat(x.n, 0)
    ELSE Rat(x.n * y.d * Sign(y.n), x.d * Abs(y.n))

NumLess(x, y) ==
    /\ ~IsNaN(x)
    /\ ~IsNaN(y)
    /\ x # y
    /\ IF x.d = 0 THEN x.n < 0
       ELSE IF y.d = 0 THEN y.n > 0
       ELSE x.n * y.d < y.n * x.d

MathMin(x, y) == IF IsNaN(x) \/ IsNaN(y) THEN NaN ELSE IF NumLess(y, x) THEN y ELSE x

MathMax(x, y) == IF IsNaN(x) \/ IsNaN(y) THEN NaN ELSE IF NumLess(x, y) THEN y ELSE x

MathFloor(x) == IF x.d = 0 THEN x ELSE Int2Num(x.n \div x.d)

(***************************************************************************)
(* The session: the calculator's expression list.  An expression is a      *)
(* record of the properties the program reads or writes.  latex is the     *)
(* text left of "=" together with the number right of it (rhs says whether *)
(* there is one); sliderBounds holds the numbers its min and max denote.   *)
(***************************************************************************)
Latex(text) == [text |-> text, rhs |-> FALSE, num |-> Int2Num(0)]

Assign(var, x) == [text |-> var, rhs |-> TRUE, num |-> x]

NoSlider == [set |-> FALSE, min |-> Int2Num(0), max |-> Int2Num(0)]

Slider(lo, hi) == [set |-> TRUE, min |-> lo, max |-> hi]

ExprDefaults ==
    [id |-> "", type |-> "expression", latex |-> Latex(""), secret |-> FALSE,
     hidden |-> FALSE, folderId |-> "", title |-> "", color |-> "",
     fill |-> TRUE, sliderBounds |-> NoSlider]

CornerKeys == {"x1", "x2", "y1", "y2"}

CornerId(k) ==
    CASE k = "x1" -> "bounds x1"
      [] k = "x2" -> "bounds x2"
      [] k = "y1" -> "bounds y1"
      [] k = "y2" -> "bounds y2"

\* expression.id.startsWith("bounds"), over the identifiers of the model
StartsWithBounds(id) ==
    id \in {"bounds", "bounds x1y1", "bounds x2y2", "bounds rect",
            "bounds animate", "bounds start action", "bounds x1",
            "bounds x2", "bounds y1", "bounds y2", "bounds time"}

Ids(list) == {list[j].id : j \in 1..Len(list)}

HasId(list, id) == id \in Ids(list)

Find(list, id) == list[CHOOSE j \in 1..Len(list) : list[j].id = id]

\* the properties of upd replace those of old, the others are kept
Merge(old, upd) ==
    [f \in DOMAIN old |-> IF f \in DOMAIN upd THEN upd[f] ELSE old[f]]

\* calc.setExpression: update the expression with this id, or append a new one
SetExpressionAlwaysNew(list, upd) == Append(list, Merge(ExprDefaults, upd))

SetExpression(list, upd) ==
    IF HasId(list, upd.id)
    THEN [j \in 1..Len(list) |->
            IF list[j].id = upd.id THEN Merge(list[j], upd) ELSE list[j]]
    ELSE Append(list, Merge(ExprDefaults, upd))

RECURSIVE SetExpressions(_, _)
SetExpressions(list, upds) ==
    IF upds = <<>> THEN list
    ELSE SetExpressions(SetExpression(list, Head(upds)), Tail(upds))

SetupControls ==
    << [id |-> "bounds", hidden |-> FALSE, type |-> "folder"],
       [id |-> "bounds x1y1", secret |-> TRUE, color |-> "GREEN",
        latex |-> Latex("\\left(B_{x1},B_{y1}\\right)")],
       [id |-> "bounds x2y2", secret |-> TRUE, color |-> "GREEN",
        latex |-> Latex("\\left(B_{x2},B_{y2}\\right)")],
       [id |-> "bounds rect", secret |-> TRUE, color |-> "GREEN", fill |-> FALSE,
        latex |-> Latex("\\operatorname{polygon}\\left(\\left[\\left(B_{x1},B_{y1}\\right),\\left(B_{x1},B_{y2}\\right),\\left(B_{x2},B_{y2}\\right),\\left(B_{x2},B_{y1}\\right)\\right]\\right)")],
       [id |-> "bounds animate", secret |-> TRUE,
        latex |-> Assign("a_{nimate}", Int2Num(0))],
       [id |-> "bounds start action", secret |-> FALSE,
        latex |-> Latex("a_{nimate} \\to a_{nimate}+1")] >>

SetupEdges ==
    << [id |-> "bounds x1", secret |-> TRUE, latex |-> Assign("B_{x1}", Rat(-48, 5))],
       [id |-> "bounds x2", secret |-> TRUE, latex |-> Assign("B_{x2}", Rat(48, 5))],
       [id |-> "bounds y1", secret |-> TRUE, latex |-> Assign("B_{y1}", Rat(-27, 5))],
       [id |-> "bounds y2", secret |-> TRUE, latex |-> Assign("B_{y2}", Rat(27, 5))] >>

SetupTime ==
    [id |-> "bounds time", latex |-> Assign("t_{ime}", Int2Num(0)),
     sliderBounds |-> Slider(Int2Num(0), Int2Num(1))]

\* getState, the loop over state.expressions.list, setState
PlaceInFolder(list) ==
    [j \in 1..Len(list) |->
        IF list[j].id = "bounds" THEN [list[j] EXCEPT !.title = "Bounds"]
        ELSE IF StartsWithBounds(list[j].id) THEN [list[j] EXCEPT !.folderId = "bounds"]
        ELSE list[j]]

\* what setup leaves in the session: lines 70-110
SetupExpressions(list) ==
    LET expressions == Ids(list)
        s1 == SetExpressions(list, SetupControls)
        s2 == IF "bounds x1" \notin expressions THEN SetExpressions(s1, SetupEdges) ELSE s1
        s3 == IF "bounds time" \notin expressions THEN SetExpression(s2, SetupTime) ELSE s2
    IN  PlaceInFolder(s3)

(***************************************************************************)
(* State.                                                                  *)
(***************************************************************************)
VARIABLES
    exprs,          \* the session's expression list (calc.getExpressions())
    calcSettings,   \* calc.settings: showGrid, showXAxis, showYAxis
    bounds,         \* the global bounds: numericValue of its four helpers
    settings,       \* the settings object of the main function
    setups,         \* the calls of setup: position and helpers heard from
    setupLog,       \* history: the session before and after each call of setup
    animateObs,     \* number of observers installed on the animate helper
    notices,        \* history: the calls of the animate observer, in order
    pc,             \* position of each render cycle
    cap,            \* locals of render and captureFrames of each cycle
    vid,            \* locals of createVideo of each cycle
    hist,           \* history of each cycle: chrome at call, times assigned
    downloads       \* the files handed to downloadBlob, in order

vars == <<exprs, calcSettings, bounds, settings, setups, setupLog, animateObs,
          notices, pc, cap, vid, hist, downloads>>

renderVars == <<pc, cap, vid, hist, downloads>>

Cycles == 1..MaxCycles

SetupCalls == 1..MaxSetups

Undefined == NaN

NoBounds == [k \in CornerKeys |-> Undefined]

IdleSetup == [pc |-> "idle", got |-> {}]

NoOpts == [width |-> NaN, height |-> NaN,
           mathBounds |-> [left |-> NaN, right |-> NaN, bottom |-> NaN, top |-> NaN]]

IdleCap ==
    [opts |-> NoOpts, folderHidden |-> FALSE, showGrid |-> FALSE,
     showXAxis |-> FALSE, showYAxis |-> FALSE, slider |-> NoSlider,
     min |-> Undefined, max |-> Undefined, i |-> 0, pendingShots |-> {},
     frames |-> <<>>, observers |-> {}]

IdleVid ==
    [images |-> <<>>, recorder |-> "inactive", delay |-> Undefined,
     timers |-> {}, elapsed |-> 0, canvas |-> 0, chunks |-> <<>>]

IdleHist ==
    [chromeAtCall |-> <<FALSE, FALSE, FALSE, FALSE>>, timeLog |-> <<>>,
     drawLog |-> <<>>, stopTimeout |-> Undefined, stopAt |-> -1, failure |-> "",
     secretAtCall |-> FALSE, overlapped |-> FALSE,
     repeats |-> [min |-> 0, max |-> 0]]

InitRenderVars ==
    /\ pc = [c \in Cycles |-> "idle"]
    /\ cap = [c \in Cycles |-> IdleCap]
    /\ vid = [c \in Cycles |-> IdleVid]
    /\ hist = [c \in Cycles |-> IdleHist]
    /\ downloads = <<>>

(***************************************************************************)
(* Sessions the script may be started in.  A session that was bootstrapped *)
(* before holds the folder, the controls and the five value bindings, with *)
(* the values the user gave them since; the user may have deleted any of   *)
(* the value bindings.  A session never bootstrapped holds none of the     *)
(* controls, and any of the value bindings under the same identifiers.     *)
(***************************************************************************)
UserExpression == [ExprDefaults EXCEPT !.id = "1", !.latex = Latex("y=x")]

ValueIds == {"bounds x1", "bounds x2", "bounds y1", "bounds y2", "bounds time"}

UserAdjusted ==
    << [id |-> "bounds x1", latex |-> Assign("B_{x1}", Int2Num(-2))],
       [id |-> "bounds x2", latex |-> Assign("B_{x2}", Int2Num(3))],
       [id |-> "bounds y1", latex |-> Assign("B_{y1}", Int2Num(-1))],
       [id |-> "bounds y2", latex |-> Assign("B_{y2}", Int2Num(4))],
       [id |-> "bounds time", latex |-> Assign("t_{ime}", Rat(3, 2)),
        sliderBounds |-> Slider(Int2Num(1), Int2Num(3))] >>

BootstrappedSession ==
    SetExpressions(SetupExpressions(<<UserExpression>>), UserAdjusted)

Without(list, gone) == SelectSeq(list, LAMBDA e : e.id \notin gone)

StartSessions ==
    {Without(BootstrappedSession, gone) : gone \in SUBSET ValueIds}
    \cup {Without(BootstrappedSession, gone \cup (Ids(BootstrappedSession) \ (ValueIds \cup {"1"}))) :
            gone \in SUBSET ValueIds}

(***************************************************************************)
(* The main function runs: settings, then setup up to its await            *)
(* (lines 180-190, 70-124).                                                *)
(***************************************************************************)
MainSettings == [duration |-> 5, frames |-> 200, resolution |-> 10]

RunMain(s) ==
    /\ setups[s].pc = "idle"
    /\ \A r \in SetupCalls : r < s => setups[r].pc # "idle"
    /\ exprs' = SetupExpressions(exprs)
    /\ bounds' = NoBounds
    /\ setups' = [setups EXCEPT ![s] = [pc |-> "awaiting", got |-> {}]]
    /\ setupLog' = Append(setupLog, [before |-> exprs, after |-> SetupExpressions(exprs)])
    /\ UNCHANGED <<calcSettings, settings, animateObs, notices>>
    /\ UNCHANGED renderVars

\* the helpers of the latest call of setup are the ones the global bounds names
LatestSetup == CHOOSE s \in SetupCalls :
    /\ setups[s].pc # "idle"
    /\ \A r \in SetupCalls : r > s => setups[r].pc = "idle"

\* line 119: Promise.all over the four observers
SetupReturnsOnFirst(got) == got # {}

SetupReturns(got) == got = CornerKeys

\* The host computes the value of a viewport helper of call s and notifies its
\* observer (lines 120-123); with the fourth one setup returns and the main
\* function installs the animate observer (lines 192-196).
HelperValue(s, k) ==
    /\ setups[s].pc = "awaiting"
    /\ k \notin setups[s].got
    /\ HasId(exprs, CornerId(k))
    /\ bounds' = IF s = LatestSetup
                 THEN [bounds EXCEPT ![k] = Find(exprs, CornerId(k)).latex.num]
                 ELSE bounds
    /\ LET got == setups[s].got \cup {k}
       IN  IF SetupReturns(got)
           THEN /\ setups' = [setups EXCEPT ![s] = [pc |-> "done", got |-> got]]
                /\ animateObs' = animateObs + 1
           ELSE /\ setups' = [setups EXCEPT ![s] = [pc |-> "awaiting", got |-> got]]
                /\ animateObs' = animateObs
    /\ UNCHANGED <<exprs, calcSettings, settings, setupLog, notices>>
    /\ UNCHANGED renderVars

(***************************************************************************)
(* The render cycle.                                                       *)
(***************************************************************************)
Chrome(list, cs) ==
    <<cs.showGrid, cs.showXAxis, cs.showYAxis, Find(list, "bounds").hidden>>

\* lines 127-134, for the values b of the four helpers
MathBoundsAsGiven(b) ==
    [left |-> b["x1"], right |-> b["x2"], bottom |-> b["y1"], top |-> b["y2"]]

MathBounds(b) ==
    [left |-> MathMin(b["x1"], b["x2"]),
     right |-> MathMax(b["x1"], b["x2"]),
     bottom |-> MathMin(b["y1"], b["y2"]),
     top |-> MathMax(b["y1"], b["y2"])]

getMathBounds == MathBounds(bounds)

\* lines 162-168
RenderOpts ==
    LET b == getMathBounds
    IN  [width |-> MathFloor(NumMul(NumSub(b.right, b.left), Int2Num(settings.resolution))),
         height |-> MathFloor(NumMul(NumSub(b.top, b.bottom), Int2Num(settings.resolution))),
         mathBounds |-> b]

\* line 150
SampleTimeOverFrames(min, max, i, frames) ==
    NumAdd(min, NumMul(NumDiv(Int2Num(i), Int2Num(frames)), NumSub(max, min)))

SampleTime(min, max, i, frames) ==
    NumAdd(min, NumMul(NumDiv(Int2Num(i), Int2Num(frames - 1)), NumSub(max, min)))

\* the still image the host renders: what the session shows when it is taken
DataUrl(list, cs) ==
    [time |-> Find(list, "bounds time").latex.num, chrome |-> Chrome(list, cs)]

\* frames.push, line 152
PushFrameFirst(frames, dataurl) == <<dataurl>> \o frames

PushFrame(frames, dataurl) == Append(frames, dataurl)

\* frames.map(src => loadImage(src)), lines 4-10 and 39
LoadImages(frames) == [j \in 1..Len(frames) |-> "loading"]

\* line 156: the settings handed back to calc.updateSettings
RestoredSettingsAllShown(c) == [showGrid |-> TRUE, showXAxis |-> TRUE, showYAxis |-> TRUE]

RestoredSettings(c) ==
    [showGrid |-> cap[c].showGrid, showXAxis |-> cap[c].showXAxis,
     showYAxis |-> cap[c].showYAxis]

\* The loop of captureFrames at index i with the frames collected so far
\* (lines 149-158), entered from the continuation of an await.  accepted says
\* whether the host takes the screenshot request or raises an error from
\* asyncScreenshot, which the promise executor of screenshot turns into a
\* rejected promise.  After the loop: restore (lines 155-156), return to
\* render and enter createVideo up to its await (lines 25-39).
CaptureLoop(c, max, i, frames, accepted) ==
    IF i < settings.frames
    THEN \E time \in {SampleTime(cap[c].min, max, i, settings.frames)} :
             /\ exprs' = SetExpression(exprs, [id |-> "bounds time",
                             latex |-> Assign("t_{ime}", time)])
             /\ hist' = [hist EXCEPT ![c].timeLog = Append(@, time),
                                     ![c].failure = IF accepted THEN @ ELSE "screenshot"]
             /\ pc' = [pc EXCEPT ![c] = IF accepted THEN "shot" ELSE "failed"]
             /\ cap' = [cap EXCEPT ![c].max = max, ![c].i = i, ![c].frames = frames,
                                   ![c].pendingShots = IF accepted THEN {i} ELSE {}]
             /\ UNCHANGED <<calcSettings, vid>>
    ELSE /\ accepted
         /\ exprs' = SetExpression(exprs, [id |-> "bounds", hidden |-> cap[c].folderHidden])
         /\ calcSettings' = RestoredSettings(c)
         /\ cap' = [cap EXCEPT ![c].max = max, ![c].i = i, ![c].frames = frames,
                               ![c].pendingShots = {}]
         /\ vid' = [vid EXCEPT ![c] = [IdleVid EXCEPT !.images = LoadImages(frames)]]
         /\ pc' = [pc EXCEPT ![c] = "loading"]
         /\ UNCHANGED hist

\* render of cycle c has been called and has neither returned nor thrown
InFlight(c) == pc[c] \notin {"idle", "done", "failed"}

\* line 170
HideStartActionLeftShown(list) == list

HideStartAction(list) ==
    SetExpression(list, [id |-> "bounds start action", secret |-> TRUE])

\* line 176
ShowStartAction(list) ==
    SetExpression(list, [id |-> "bounds start action", secret |-> FALSE])

\* captureFrames of cycle c is between its first and its last await
Sampling(c) == pc[c] \in {"evalMin", "evalMax", "shot"}

\* line 141
HiddenSettingsButGrid == [showGrid |-> TRUE, showXAxis |-> FALSE, showYAxis |-> FALSE]

HiddenSettings == [showGrid |-> FALSE, showXAxis |-> FALSE, showYAxis |-> FALSE]

\* render(Calc, settings) of cycle c in the session list1, with captureFrames
\* up to its first await (lines 162-170, 137-145).  evaluate leaves its
\* observer on the helper of the lower limit (line 57).
RenderCall(c, list1) ==
    LET list2 == HideStartAction(list1)
        expressions == list2
        list3 == SetExpression(list2, [id |-> "bounds", hidden |-> TRUE])
        found == HasId(expressions, "bounds time")
    IN  /\ exprs' = list3
        /\ calcSettings' = HiddenSettings
        /\ cap' = [cap EXCEPT ![c] =
               [IdleCap EXCEPT !.opts = RenderOpts,
                               !.folderHidden = Find(expressions, "bounds").hidden,
                               !.showGrid = calcSettings.showGrid,
                               !.showXAxis = calcSettings.showXAxis,
                               !.showYAxis = calcSettings.showYAxis,
                               !.slider = IF found THEN Find(expressions, "bounds time").sliderBounds
                                          ELSE NoSlider,
                               !.observers = IF found THEN {"min"} ELSE {}]]
        /\ hist' = [b \in Cycles |->
               IF b = c
               THEN [IdleHist EXCEPT !.chromeAtCall = Chrome(list2, calcSettings),
                                     !.failure = IF found THEN "" ELSE "slider",
                                     !.secretAtCall = Find(expressions, "bounds start action").secret,
                                     !.overlapped = \E a \in Cycles : InFlight(a)]
               ELSE IF InFlight(b) THEN [hist[b] EXCEPT !.overlapped = TRUE]
               ELSE hist[b]]
        /\ pc' = [pc EXCEPT ![c] = IF found THEN "evalMin" ELSE "failed"]

\* line 194: the test of the animate observer on the value it reads; the
\* value reported before and the cycles in flight play no part in it
ShouldRenderOnRisingEdge(value, previous, busy) ==
    value # Int2Num(0) /\ (previous = Int2Num(0) \/ previous = Undefined)

ShouldRenderWhenIdle(value, previous, busy) == value # Int2Num(0) /\ ~busy

ShouldRender(value, previous, busy) == value # Int2Num(0)

LastNotice == IF notices = <<>> THEN Undefined ELSE notices[Len(notices)].value

\* The animate binding takes the value v and the host calls the observer of
\* the animate helper (lines 193-195), which reads the value and calls render
\* in the free slot c when the test of line 194 passes.
AnimateObserver(c, v) ==
    /\ animateObs > 0
    /\ Len(notices) < MaxNotices
    /\ v # LastNotice
    /\ LET busy == \E a \in Cycles : InFlight(a)
           list1 == SetExpression(exprs, [id |-> "bounds animate",
                                          latex |-> Assign("a_{nimate}", v)])
       IN  IF ShouldRender(v, LastNotice, busy)
           THEN /\ pc[c] = "idle"
                /\ \A b \in Cycles : b < c => pc[b] # "idle"
                /\ RenderCall(c, list1)
                /\ notices' = Append(notices, [value |-> v, busy |-> busy, started |-> c])
           ELSE /\ c = 1
                /\ exprs' = list1
                /\ notices' = Append(notices, [value |-> v, busy |-> busy, started |-> 0])
                /\ UNCHANGED <<calcSettings, pc, cap, hist>>
    /\ UNCHANGED <<vid, downloads, bounds, settings, setups, setupLog, animateObs>>

\* The user clicks the start action (line 83): animate goes up by one and the
\* observer is called with the new value.
StartRender(c) ==
    AnimateObserver(c, NumAdd(Find(exprs, "bounds animate").latex.num, Int2Num(1)))

\* evaluate(calc, latex): the helper for latex + "+0" reports its value
Evaluated(x) == NumAdd(x, Int2Num(0))

\* the helper of evaluate(min) notifies: line 145 resumes, evaluate(max) starts
MinValue(c) ==
    /\ pc[c] = "evalMin"
    /\ cap' = [cap EXCEPT ![c].min = Evaluated(cap[c].slider.min),
                           ![c].observers = @ \cup {"max"}]
    /\ pc' = [pc EXCEPT ![c] = "evalMax"]
    /\ UNCHANGED <<exprs, calcSettings, vid, hist, downloads>>
    /\ UNCHANGED <<bounds, settings, setups, setupLog, animateObs, notices>>

\* the helper of evaluate(max) notifies: line 146 resumes and the loop starts
MaxValue(c, accepted) ==
    /\ pc[c] = "evalMax"
    /\ CaptureLoop(c, Evaluated(cap[c].slider.max), 0, <<>>, accepted)
    /\ UNCHANGED downloads
    /\ UNCHANGED <<bounds, settings, setups, setupLog, animateObs, notices>>

\* the observer of evaluate(min) or evaluate(max) of cycle c has been called
FirstDelivered(c, w) ==
    /\ hist[c].failure # "slider"
    /\ pc[c] \notin (IF w = "min" THEN {"idle", "evalMin"} ELSE {"idle", "evalMin", "evalMax"})

\* The value of a slider limit changes after evaluate has resolved (the limit
\* is written with a parameter the user moves): the host calls the observer
\* that line 57 left on the helper; res on the settled promise does nothing.
HelperChanged(c, w) ==
    /\ w \in cap[c].observers
    /\ FirstDelivered(c, w)
    /\ hist[c].repeats[w] < MaxRepeats
    /\ hist' = [hist EXCEPT ![c].repeats[w] = @ + 1]
    /\ UNCHANGED <<exprs, calcSettings, pc, cap, vid, downloads>>
    /\ UNCHANGED <<bounds, settings, setups, setupLog, animateObs, notices>>

\* the host delivers the screenshot of sample r: line 152 resumes, the frame is
\* pushed and the loop goes on with i + 1
ScreenshotDone(c, r, accepted) ==
    /\ pc[c] = "shot"
    /\ r \in cap[c].pendingShots
    /\ CaptureLoop(c, cap[c].max, cap[c].i + 1,
                   PushFrame(cap[c].frames, DataUrl(exprs, calcSettings)), accepted)
    /\ UNCHANGED downloads
    /\ UNCHANGED <<bounds, settings, setups, setupLog, animateObs, notices>>

(***************************************************************************)
(* createVideo after its await.  setTimeout takes its delay as a WebIDL    *)
(* long: the number is truncated to an integer, a non-finite one is 0.     *)
(* A timer runs once its delay has passed and every timer set before it    *)
(* with a delay no longer than its own has run.                            *)
(***************************************************************************)
ToLong(x) == IF x.d = 0 THEN 0 ELSE Sign(x.n) * (Abs(x.n) \div x.d)

\* line 43
FrameDelay == NumDiv(NumMul(Int2Num(1000), Int2Num(settings.duration)), Int2Num(settings.frames))

\* line 45: the timeout of the draw of images[i]
DrawTimeoutConstant(delay, i) == delay

DrawTimeout(delay, i) == NumMul(delay, Int2Num(i))

\* line 46: the timeout of recorder.stop()
StopTimeoutAtLastDraw(delay, length) == NumMul(delay, Int2Num(length - 1))

StopTimeout(delay, length) == NumMul(delay, Int2Num(length))

Timer(kind, idx, timeout, seq) ==
    [kind |-> kind, idx |-> idx, timeout |-> timeout, due |-> ToLong(timeout), seq |-> seq]

\* lines 44-46
ScheduledTimers(delay, length) ==
    {Timer("draw", i, DrawTimeout(delay, i), i) : i \in 0..(length - 1)}
    \cup {Timer("stop", length, StopTimeout(delay, length), length)}

\* line 39: Promise.all resolves when every image has loaded
SomeLoaded(images) == \E m \in 1..Len(images) : images[m] = "loaded"

AllLoaded(images) == \A m \in 1..Len(images) : images[m] = "loaded"

\* image j has loaded (line 7); with the last one Promise.all resolves and
\* lines 41-48 run: the recorder starts and the draws and the stop are set
ImageLoaded(c, j) ==
    /\ pc[c] = "loading"
    /\ j \in 1..Len(vid[c].images)
    /\ vid[c].images[j] = "loading"
    /\ LET images == [vid[c].images EXCEPT ![j] = "loaded"]
       IN  IF AllLoaded(images)
           THEN /\ \E delay \in {FrameDelay} :
                      vid' = [vid EXCEPT ![c].images = images,
                                         ![c].recorder = "recording",
                                         ![c].delay = delay,
                                         ![c].timers = ScheduledTimers(delay, Len(images)),
                                         ![c].elapsed = 0]
                /\ pc' = [pc EXCEPT ![c] = "recording"]
           ELSE /\ vid' = [vid EXCEPT ![c].images = images]
                /\ pc' = pc
    /\ UNCHANGED <<exprs, calcSettings, cap, hist, downloads>>
    /\ UNCHANGED <<bounds, settings, setups, setupLog, animateObs, notices>>

\* image j fails to decode: loadImage sets no onerror, so nothing runs
ImageError(c, j) ==
    /\ pc[c] = "loading"
    /\ j \in 1..Len(vid[c].images)
    /\ vid[c].images[j] = "loading"
    /\ vid' = [vid EXCEPT ![c].images[j] = "error"]
    /\ UNCHANGED <<exprs, calcSettings, pc, cap, hist, downloads>>
    /\ UNCHANGED <<bounds, settings, setups, setupLog, animateObs, notices>>

\* time passes while the recorder runs, up to the delay of some timer
Tick(c) ==
    /\ pc[c] = "recording"
    /\ \E t \in vid[c].timers :
          /\ t.due > vid[c].elapsed
          /\ vid' = [vid EXCEPT ![c].elapsed = t.due]
    /\ UNCHANGED <<exprs, calcSettings, pc, cap, hist, downloads>>
    /\ UNCHANGED <<bounds, settings, setups, setupLog, animateObs, notices>>

MayRun(timers, elapsed, t) ==
    /\ t \in timers
    /\ t.due <= elapsed
    /\ \A u \in timers : ~(u.seq < t.seq /\ u.due <= t.due)

\* a timer runs: a draw (line 45) or the stop of the recorder (line 46)
TimerFires(c, t) ==
    /\ pc[c] = "recording"
    /\ MayRun(vid[c].timers, vid[c].elapsed, t)
    /\ IF t.kind = "draw"
       THEN /\ vid' = [vid EXCEPT ![c].timers = @ \ {t}, ![c].canvas = t.idx + 1]
            /\ hist' = [hist EXCEPT ![c].drawLog =
                            Append(@, [idx |-> t.idx, timeout |-> t.timeout,
                                       at |-> vid[c].elapsed])]
            /\ pc' = pc
       ELSE /\ vid' = [vid EXCEPT ![c].timers = @ \ {t}, ![c].recorder = "inactive"]
            /\ hist' = [hist EXCEPT ![c].stopTimeout = t.timeout,
                                    ![c].stopAt = vid[c].elapsed]
            /\ pc' = [pc EXCEPT ![c] = "stopping"]
    /\ UNCHANGED <<exprs, calcSettings, cap, downloads>>
    /\ UNCHANGED <<bounds, settings, setups, setupLog, animateObs, notices>>

\* downloadBlob, lines 12-19: one click on a link to the blob
DownloadBlobTwice(done, file) == Append(Append(done, file), file)

DownloadBlob(done, file) == Append(done, file)

\* the stop event comes and nothing resolves the promise of createVideo
RecorderStoppedUnresolved(c) ==
    /\ pc[c] = "stopping"
    /\ vid' = [vid EXCEPT ![c].chunks = Append(@, hist[c].drawLog)]
    /\ pc' = [pc EXCEPT ![c] = "stopped"]
    /\ UNCHANGED <<exprs, calcSettings, cap, hist, downloads>>
    /\ UNCHANGED <<bounds, settings, setups, setupLog, animateObs, notices>>

\* The recorder delivers its data and its stop event (lines 35-36); createVideo
\* resolves with the blob and render goes on: download, start action shown
\* again (lines 174-176).
RecorderStopped(c) ==
    /\ pc[c] = "stopping"
    /\ LET chunks == Append(vid[c].chunks, hist[c].drawLog)
       IN  /\ vid' = [vid EXCEPT ![c].chunks = chunks]
           /\ downloads' = DownloadBlob(downloads,
                  [cycle |-> c, filename |-> "desmos.webm", blob |-> chunks,
                   secret |-> Find(exprs, "bounds start action").secret])
    /\ exprs' = ShowStartAction(exprs)
    /\ pc' = [pc EXCEPT ![c] = "done"]
    /\ UNCHANGED <<calcSettings, cap, hist>>
    /\ UNCHANGED <<bounds, settings, setups, setupLog, animateObs, notices>>

\* the user deletes the time slider before any render cycle has started
UserDeletesTime ==
    /\ \A c \in Cycles : pc[c] = "idle"
    /\ HasId(exprs, "bounds time")
    /\ exprs' = Without(exprs, {"bounds time"})
    /\ UNCHANGED <<calcSettings, bounds, settings, setups, setupLog, animateObs, notices>>
    /\ UNCHANGED renderVars

(***************************************************************************)
(* A render cycle that runs alone in a bootstrapped session.  The script   *)
(* ran in a fresh session and setup returned; since then the user has set  *)
(* the slider limits and the visibility of grid, axes and folder.  The     *)
(* functions take the settings as a parameter: duration and frames range   *)
(* over small sets.                                                        *)
(***************************************************************************)
Durations == {1, 5}

TimeRanges == {<<Int2Num(0), Int2Num(1)>>, <<Rat(-1, 2), Int2Num(2)>>, <<Int2Num(3), Int2Num(1)>>}

FreshBootstrap == SetupExpressions(<<UserExpression>>)

LiveBounds == [k \in CornerKeys |-> Find(FreshBootstrap, CornerId(k)).latex.num]

Init ==
    /\ \E range \in TimeRanges, folderHidden \in BOOLEAN :
          exprs = SetExpressions(FreshBootstrap,
                      << [id |-> "bounds time", sliderBounds |-> Slider(range[1], range[2])],
                         [id |-> "bounds", hidden |-> folderHidden] >>)
    /\ calcSettings \in [showGrid : BOOLEAN, showXAxis : BOOLEAN, showYAxis : BOOLEAN]
    /\ bounds = LiveBounds
    /\ settings \in [duration : Durations, frames : 1..MaxFrames, resolution : {10}]
    /\ setups = [s \in SetupCalls |-> IF s = 1 THEN [pc |-> "done", got |-> CornerKeys]
                                      ELSE IdleSetup]
    /\ setupLog = <<[before |-> <<UserExpression>>, after |-> FreshBootstrap]>>
    /\ animateObs = 1
    /\ notices = <<>>
    /\ InitRenderVars

\* the user starts one cycle and lets it run alone
SoloStart(c) ==
    /\ \A b \in Cycles : pc[b] = "idle"
    /\ StartRender(c)

Next ==
    \/ \E c \in Cycles : SoloStart(c)
    \/ \E c \in Cycles : MinValue(c)
    \/ \E c \in Cycles, accepted \in BOOLEAN : MaxValue(c, accepted)
    \/ \E c \in Cycles, r \in 0..MaxFrames, accepted \in BOOLEAN : ScreenshotDone(c, r, accepted)
    \/ \E c \in Cycles, j \in 1..MaxFrames : ImageLoaded(c, j)
    \/ \E c \in Cycles, j \in 1..MaxFrames : ImageError(c, j)
    \/ \E c \in Cycles : Tick(c)
    \/ \E c \in Cycles : \E t \in vid[c].timers : TimerFires(c, t)
    \/ \E c \in Cycles : RecorderStopped(c)
    \/ UserDeletesTime

Spec == Init /\ [][Next]_vars

(***************************************************************************)
(* The script from its start: the calls of setup and the notifications of  *)
(* the viewport helpers.                                                   *)
(***************************************************************************)
InitSetup ==
    /\ exprs \in StartSessions
    /\ calcSettings = [showGrid |-> TRUE, showXAxis |-> TRUE, showYAxis |-> TRUE]
    /\ bounds = NoBounds
    /\ settings = MainSettings
    /\ setups = [s \in SetupCalls |-> IdleSetup]
    /\ setupLog = <<>>
    /\ animateObs = 0
    /\ notices = <<>>
    /\ InitRenderVars

NextSetup ==
    \/ \E s \in SetupCalls : RunMain(s)
    \/ \E s \in SetupCalls, k \in CornerKeys : HelperValue(s, k)

SpecSetup == InitSetup /\ [][NextSetup]_vars

\* the same in a session never bootstrapped, with a click on the start action
\* at any time
InitBoot ==
    /\ InitSetup
    /\ ~HasId(exprs, "bounds")

NextBoot ==
    \/ \E s \in SetupCalls : RunMain(s)
    \/ \E s \in SetupCalls, k \in CornerKeys : HelperValue(s, k)
    \/ \E c \in Cycles : SoloStart(c)

SpecBoot == InitBoot /\ [][NextBoot]_vars

(***************************************************************************)
(* A render cycle that runs alone and meets no failure, in a session whose *)
(* slider limits keep changing after captureFrames has read them.          *)
(***************************************************************************)
InitEvaluate ==
    /\ Init
    /\ calcSettings = [showGrid |-> TRUE, showXAxis |-> TRUE, showYAxis |-> TRUE]
    /\ ~Find(exprs, "bounds").hidden
    /\ settings.duration = 1

NextEvaluate ==
    \/ \E c \in Cycles : SoloStart(c)
    \/ \E c \in Cycles : MinValue(c)
    \/ \E c \in Cycles : MaxValue(c, TRUE)
    \/ \E c \in Cycles, r \in 0..MaxFrames : ScreenshotDone(c, r, TRUE)
    \/ \E c \in Cycles, j \in 1..MaxFrames : ImageLoaded(c, j)
    \/ \E c \in Cycles : Tick(c)
    \/ \E c \in Cycles : \E t \in vid[c].timers : TimerFires(c, t)
    \/ \E c \in Cycles : RecorderStopped(c)
    \/ \E c \in Cycles, w \in {"min", "max"} : HelperChanged(c, w)

SpecEvaluate == InitEvaluate /\ [][NextEvaluate]_vars

(***************************************************************************)
(* The viewport.  After the bootstrap the user moves the corners of the    *)
(* rectangle, or makes the definition of one undefined (its helper then    *)
(* reports NaN), and starts a cycle: render reads getMathBounds.           *)
(***************************************************************************)
CornerValues == {Int2Num(-3), Int2Num(0), Rat(5, 2), NaN}

UserMovesCorner(k, v) ==
    /\ \A c \in Cycles : pc[c] = "idle"
    /\ v # bounds[k]
    /\ exprs' = SetExpression(exprs, [id |-> CornerId(k),
                     latex |-> Assign(Find(exprs, CornerId(k)).latex.text, v)])
    /\ bounds' = [bounds EXCEPT ![k] = v]
    /\ UNCHANGED <<calcSettings, settings, setups, setupLog, animateObs, notices>>
    /\ UNCHANGED renderVars

InitBounds ==
    /\ InitEvaluate
    /\ Find(exprs, "bounds time").sliderBounds = Slider(Int2Num(0), Int2Num(1))
    /\ settings.frames = 2

NextBounds ==
    \/ \E k \in CornerKeys, v \in CornerValues : UserMovesCorner(k, v)
    \/ \E c \in Cycles : SoloStart(c)

SpecBounds == InitBounds /\ [][NextBounds]_vars

(***************************************************************************)
(* Render cycles that overlap: the start action is triggered again while   *)
(* cycles are in flight.  Each cycle takes one frame and no step fails.    *)
(***************************************************************************)
InitOverlap ==
    /\ InitEvaluate
    /\ Find(exprs, "bounds time").sliderBounds = Slider(Int2Num(0), Int2Num(1))
    /\ settings.frames = 1

NextOverlap ==
    \/ \E c \in Cycles : StartRender(c)
    \/ \E c \in Cycles : MinValue(c)
    \/ \E c \in Cycles : MaxValue(c, TRUE)
    \/ \E c \in Cycles, r \in 0..MaxFrames : ScreenshotDone(c, r, TRUE)
    \/ \E c \in Cycles, j \in 1..MaxFrames : ImageLoaded(c, j)
    \/ \E c \in Cycles : Tick(c)
    \/ \E c \in Cycles : \E t \in vid[c].timers : TimerFires(c, t)
    \/ \E c \in Cycles : RecorderStopped(c)

SpecOverlap == InitOverlap /\ [][NextOverlap]_vars

(***************************************************************************)
(* The trigger.  Between two cycles the animate binding changes, to zero   *)
(* or not, and every change calls the observer; the first call is the      *)
(* notification that follows the bootstrap.                                *)
(***************************************************************************)
AnimateValues == {Int2Num(0), Int2Num(1), Int2Num(2)}

QuietNotice(c, v) ==
    /\ \A a \in Cycles : ~InFlight(a)
    /\ AnimateObserver(c, v)

NextTrigger ==
    \/ \E c \in Cycles, v \in AnimateValues : QuietNotice(c, v)
    \/ \E c \in Cycles : MinValue(c)
    \/ \E c \in Cycles : MaxValue(c, TRUE)
    \/ \E c \in Cycles, r \in 0..MaxFrames : ScreenshotDone(c, r, TRUE)
    \/ \E c \in Cycles, j \in 1..MaxFrames : ImageLoaded(c, j)
    \/ \E c \in Cycles : Tick(c)
    \/ \E c \in Cycles : \E t \in vid[c].timers : TimerFires(c, t)
    \/ \E c \in Cycles : RecorderStopped(c)

SpecTrigger == InitBounds /\ [][NextTrigger]_vars

(***************************************************************************)
(* A render cycle that runs alone with a host that answers: every helper   *)
(* notifies, every screenshot and every image arrives, time passes, every  *)
(* timer runs and the recorder signals its stop.  Each of these is a step  *)
(* of the host that stays enabled until it is taken, hence weak fairness.  *)
(***************************************************************************)
NextLive ==
    \/ \E c \in Cycles : SoloStart(c)
    \/ \E c \in Cycles : MinValue(c)
    \/ \E c \in Cycles : MaxValue(c, TRUE)
    \/ \E c \in Cycles, r \in 0..MaxFrames : ScreenshotDone(c, r, TRUE)
    \/ \E c \in Cycles, j \in 1..MaxFrames : ImageLoaded(c, j)
    \/ \E c \in Cycles : Tick(c)
    \/ \E c \in Cycles : \E t \in vid[c].timers : TimerFires(c, t)
    \/ \E c \in Cycles : RecorderStopped(c)

HostAnswers ==
    \A c \in Cycles :
        /\ WF_vars(MinValue(c))
        /\ WF_vars(MaxValue(c, TRUE))
        /\ WF_vars(\E r \in 0..MaxFrames : ScreenshotDone(c, r, TRUE))
        /\ WF_vars(\E j \in 1..MaxFrames : ImageLoaded(c, j))
        /\ WF_vars(Tick(c))
        /\ WF_vars(\E t \in vid[c].timers : TimerFires(c, t))
        /\ WF_vars(RecorderStopped(c))

SpecLive == InitEvaluate /\ [][NextLive]_vars /\ HostAnswers

(***************************************************************************)
(* Properties.                                                             *)
(***************************************************************************)
\* captureFrames of cycle c has returned and no later cycle has started
Returned(c) ==
    /\ pc[c] \in {"loading", "recording", "stopping", "done"}
    /\ \A b \in Cycles : b > c => pc[b] = "idle"

\* C1: after captureFrames has returned in a cycle that runs alone, grid, x-axis,
\* y-axis and the hidden flag of the folder are what they were just before the
\* call, whatever they were.
C1_ChromeRestoredAfterCapture ==
    \A c \in Cycles :
        Returned(c) => Chrome(exprs, calcSettings) = hist[c].chromeAtCall

C1_Witness ==
    /\ pc[1] = "done"
    /\ hist[1].chromeAtCall = <<TRUE, FALSE, TRUE, TRUE>>
    /\ Chrome(exprs, calcSettings) = <<TRUE, FALSE, TRUE, TRUE>>

\* C2: a cycle that failed while evaluating the range or capturing a sample has
\* the chrome back at what it was before captureFrames was called.
C2_ChromeRestoredAfterFailure ==
    \A c \in Cycles :
        (pc[c] = "failed" /\ \A b \in Cycles : b > c => pc[b] = "idle")
            => Chrome(exprs, calcSettings) = hist[c].chromeAtCall

\* C3: with N >= 2 frames and the range evaluated to [min, max], the time binding
\* is assigned N times, the i-th value v_i satisfying
\* (v_i - min) * (N - 1) = i * (max - min); the first is min and the last is max.
C3_SampleTimes ==
    \A c \in Cycles :
        (Returned(c) /\ settings.frames >= 2) =>
            LET N == settings.frames
                log == hist[c].timeLog
            IN  /\ Len(log) = N
                /\ \A i \in 0..(N - 1) :
                      NumMul(NumSub(log[i + 1], cap[c].min), Int2Num(N - 1))
                          = NumMul(Int2Num(i), NumSub(cap[c].max, cap[c].min))
                /\ log[1] = cap[c].min
                /\ log[N] = cap[c].max

C3_Witness ==
    /\ pc[1] = "done"
    /\ settings.frames = 4
    /\ hist[1].timeLog = <<Int2Num(0), Rat(1, 3), Rat(2, 3), Int2Num(1)>>

\* C4: with one frame there is exactly one sample and the time binding is
\* assigned min for it.
C4_SingleFrameAtMin ==
    \A c \in Cycles :
        (Returned(c) /\ settings.frames = 1) => hist[c].timeLog = <<cap[c].min>>

\* C5: at most one screenshot request is outstanding; while the request of
\* sample i is outstanding the time of sample i + 1 has not been assigned; and
\* the k-th frame collected shows the time assigned for the k-th sample.
C5_SequentialCaptures ==
    \A c \in Cycles :
        /\ Cardinality(cap[c].pendingShots) <= 1
        /\ \A i \in cap[c].pendingShots :
              Len(cap[c].frames) = i /\ Len(hist[c].timeLog) = i + 1
        /\ Len(hist[c].timeLog) <= Len(cap[c].frames) + 1
        /\ \A k \in 1..Len(cap[c].frames) : cap[c].frames[k].time = hist[c].timeLog[k]
        /\ Returned(c) => Len(cap[c].frames) = settings.frames

C5_Witness ==
    /\ pc[1] = "shot"
    /\ cap[1].pendingShots = {2}
    /\ Len(cap[1].frames) = 2
    /\ cap[1].frames[1].time # cap[1].frames[2].time

\* the draws and the stop of cycle c have all run
Assembled(c) == pc[c] \in {"stopping", "done"}

MsDuration == NumMul(Int2Num(1000), Int2Num(settings.duration))

\* C6: every image is drawn once, in input order; the draw of image i is set at
\* delay * i with delay * frames = 1000 * duration, so the timeouts increase
\* strictly in steps of delay.
C6_DrawsInOrder ==
    \A c \in Cycles :
        LET log == hist[c].drawLog
            delay == vid[c].delay
        IN  /\ \A k \in 1..Len(log) : log[k].idx = k - 1
            /\ \A k \in 1..Len(log) : log[k].timeout = NumMul(delay, Int2Num(k - 1))
            /\ \A k \in 1..(Len(log) - 1) :
                  /\ NumLess(log[k].timeout, log[k + 1].timeout)
                  /\ NumSub(log[k + 1].timeout, log[k].timeout) = delay
                  /\ log[k].at <= log[k + 1].at
            /\ Len(log) > 0 => NumMul(delay, Int2Num(settings.frames)) = MsDuration
            /\ Assembled(c) => Len(log) = Len(vid[c].images)

C6_Witness ==
    /\ pc[1] = "done"
    /\ settings.duration = 1
    /\ Len(hist[1].drawLog) = 3
    /\ hist[1].drawLog[2].timeout = Rat(1000, 3)

\* C7: the recorder is stopped after the last draw has run, by a timer set at
\* delay * K, which is 1000 * duration and one delay after the last draw.
C7_StopAfterLastDraw ==
    \A c \in Cycles :
        Assembled(c) =>
            LET log == hist[c].drawLog
                K == Len(vid[c].images)
            IN  /\ Len(log) = K
                /\ hist[c].stopTimeout = NumMul(vid[c].delay, Int2Num(K))
                /\ hist[c].stopTimeout = MsDuration
                /\ NumLess(log[K].timeout, hist[c].stopTimeout)
                /\ NumSub(hist[c].stopTimeout, log[K].timeout) = vid[c].delay
                /\ log[K].at <= hist[c].stopAt
                /\ vid[c].canvas = K

C7_Witness ==
    /\ pc[1] = "stopping"
    /\ settings.frames = 2
    /\ hist[1].stopTimeout = Int2Num(5000)
    /\ hist[1].drawLog[2].timeout = Int2Num(2500)

\* C8: when an image fails to decode, the cycle ends with an error.
C8_DecodeFailureAborts ==
    \A c \in Cycles :
        (\E j \in 1..Len(vid[c].images) : vid[c].images[j] = "error") => pc[c] = "failed"

\* what setup may not change of a binding: everything but its folder
Unplaced(e) == [e EXCEPT !.folderId = ""]

\* C9: a corner or time binding that exists when setup is called has the same
\* value after it; only its folder may differ.
C9_ExistingBindingsKept ==
    \A j \in 1..Len(setupLog) :
        \A id \in ValueIds \cap Ids(setupLog[j].before) :
            Unplaced(Find(setupLog[j].after, id)) = Unplaced(Find(setupLog[j].before, id))

\* C10: a second call of setup leaves the session as the first call left it,
\* with no identifier twice.
C10_SetupIdempotent ==
    \A j \in 1..Len(setupLog) :
        /\ Cardinality(Ids(setupLog[j].after)) = Len(setupLog[j].after)
        /\ j > 1 => setupLog[j].after = setupLog[1].after
        /\ j = Len(setupLog) => exprs = setupLog[j].after

C10_Witness ==
    /\ Len(setupLog) = 2
    /\ setupLog[1].after # setupLog[1].before
    /\ ~HasId(setupLog[1].before, "bounds x1")
    /\ HasId(setupLog[1].before, "bounds time")

DownloadsOf(c) == {k \in 1..Len(downloads) : downloads[k].cycle = c}

\* C11: a cycle has one download once it is done and none before; the file
\* holds a draw of every frame, and a cycle that failed or hangs has none.
C11_OneDownloadPerCompletedCycle ==
    \A c \in Cycles :
        /\ Cardinality(DownloadsOf(c)) = IF pc[c] = "done" THEN 1 ELSE 0
        /\ \A k \in DownloadsOf(c) :
              /\ downloads[k].filename = "desmos.webm"
              /\ Len(cap[c].frames) = settings.frames
              /\ downloads[k].blob = <<hist[c].drawLog>>
              /\ Len(hist[c].drawLog) = settings.frames

C11_Witness ==
    /\ pc[1] = "done"
    /\ Len(downloads) = 1
    /\ Len(downloads[1].blob[1]) = 3

\* C12: once the observer of an evaluate call has been called, it is no longer
\* registered on the helper and is not called again.
C12_EvaluateDropsObserver ==
    \A c \in Cycles : \A w \in {"min", "max"} :
        FirstDelivered(c, w) =>
            /\ w \notin cap[c].observers
            /\ hist[c].repeats[w] = 0

SetupsDone == {s \in SetupCalls : setups[s].pc = "done"}

SetupsCalled == {s \in SetupCalls : setups[s].pc # "idle"}

\* C13: a call of setup is done only when all four viewport helpers have
\* notified; the animate observers are those of the calls that are done, so no
\* observer call and no render cycle comes before a call is done, and with a
\* single run of the script getMathBounds reads four live values.
C13_SetupWaitsForAllHelpers ==
    /\ \A s \in SetupsDone : setups[s].got = CornerKeys
    /\ animateObs = Cardinality(SetupsDone)
    /\ notices # <<>> => SetupsDone # {}
    /\ \A c \in Cycles : pc[c] # "idle" =>
          /\ SetupsDone # {}
          /\ Cardinality(SetupsCalled) = 1 =>
                \A f \in {"left", "right", "bottom", "top"} : ~IsNaN(cap[c].opts.mathBounds[f])

C13_Witness ==
    /\ setups[1].pc = "done"
    /\ Cardinality(SetupsCalled) = 1
    /\ pc[1] = "evalMin"

\* x <= y of JavaScript
NumLeq(x, y) == ~IsNaN(x) /\ ~IsNaN(y) /\ (x = y \/ NumLess(x, y))

SwapX(b) == [b EXCEPT !["x1"] = b["x2"], !["x2"] = b["x1"]]

SwapY(b) == [b EXCEPT !["y1"] = b["y2"], !["y2"] = b["y1"]]

\* what C14 says of the rectangle getMathBounds returns for the corners b
OrderedRectangle(b) ==
    LET r == MathBounds(b)
    IN  /\ NumLeq(r.left, r.right)
        /\ NumLeq(r.bottom, r.top)
        /\ {r.left, r.right} = {b["x1"], b["x2"]}
        /\ {r.bottom, r.top} = {b["y1"], b["y2"]}
        /\ MathBounds(SwapX(b)) = r
        /\ MathBounds(SwapY(b)) = r

\* C14 as stated: for all values of the four corners the rectangle is ordered,
\* made of the smaller and larger of each pair, and the same after a swap; the
\* call leaves the corners as they were.
C14_OrderedForAllValues ==
    /\ OrderedRectangle(bounds)
    /\ \A c \in Cycles : pc[c] # "idle" => cap[c].opts.mathBounds = MathBounds(bounds)

NoNaN(b) == \A k \in CornerKeys : ~IsNaN(b[k])

\* C14, amended: the same for all corners that are numbers (none is NaN).
C14_OrderedForNumbers ==
    /\ NoNaN(bounds) => OrderedRectangle(bounds)
    /\ \A c \in Cycles : pc[c] # "idle" => cap[c].opts.mathBounds = MathBounds(bounds)

C14_Witness ==
    /\ pc[1] # "idle"
    /\ NoNaN(bounds)
    /\ NumLess(bounds["x2"], bounds["x1"])
    /\ NumLess(bounds["y1"], bounds["y2"])
    /\ cap[1].opts.mathBounds.left = bounds["x2"]

AllHidden == <<FALSE, FALSE, FALSE, TRUE>>

StartedBy(j) == notices[j].started

\* C15: a non-zero notice that comes while a cycle is in flight starts a cycle
\* all the same; the snapshot of a cycle is the chrome the first cycle found
\* or the chrome hidden by a cycle; and once no cycle samples, the chrome is
\* the snapshot of one of the cycles.
C15_OverlappingCycles ==
    /\ \A j \in 1..Len(notices) :
          (notices[j].value # Int2Num(0) /\ notices[j].busy) =>
              /\ StartedBy(j) # 0
              /\ hist[StartedBy(j)].overlapped
    /\ \A c \in Cycles :
          pc[c] # "idle" =>
              hist[c].chromeAtCall \in {hist[1].chromeAtCall, AllHidden}
    /\ ((\E c \in Cycles : Assembled(c) \/ pc[c] \in {"loading", "recording", "stopping"})
            /\ \A c \in Cycles : ~Sampling(c))
       => \E c \in Cycles : Chrome(exprs, calcSettings) = hist[c].chromeAtCall /\ pc[c] # "idle"

\* the second cycle took the hidden chrome for its snapshot; both cycles are
\* done and the chrome is not what it was before the first
C15_Witness ==
    /\ pc[1] = "done"
    /\ pc[2] = "done"
    /\ hist[2].overlapped
    /\ hist[2].chromeAtCall = AllHidden
    /\ hist[1].chromeAtCall = <<TRUE, TRUE, TRUE, FALSE>>
    /\ Chrome(exprs, calcSettings) = AllHidden

StartedCycles == {StartedBy(j) : j \in 1..Len(notices)} \ {0}

\* C17: a call of the observer starts a cycle exactly when the value it reads
\* is not zero, whatever the value before; each such call starts one cycle of
\* its own, and no cycle starts otherwise.
C17_LevelTriggered ==
    /\ \A j \in 1..Len(notices) : (notices[j].value # Int2Num(0)) <=> (StartedBy(j) # 0)
    /\ \A j, k \in 1..Len(notices) : (j # k /\ StartedBy(j) # 0) => StartedBy(j) # StartedBy(k)
    /\ StartedCycles = {c \in Cycles : pc[c] # "idle"}

\* the notification after the bootstrap reads zero, then 1, then 2
C17_Witness ==
    /\ Len(notices) >= 3
    /\ notices[1].value = Int2Num(0) /\ StartedBy(1) = 0
    /\ notices[2].value = Int2Num(1) /\ StartedBy(2) = 1
    /\ notices[3].value = Int2Num(2) /\ StartedBy(3) = 2

\* what C16 says of cycle c: the chrome is hidden while captureFrames samples
\* and in every frame taken; captureFrames has returned only with all frames
\* taken, and the chrome is then back as the cycle found it (until a later
\* cycle hides it again); createVideo has loaded nothing before that.
ChromeDiscipline(c) ==
    /\ Sampling(c) =>
          /\ Chrome(exprs, calcSettings) = AllHidden
          /\ vid[c] = IdleVid
    /\ \A k \in 1..Len(cap[c].frames) : cap[c].frames[k].chrome = AllHidden
    /\ pc[c] \in {"loading", "recording", "stopping", "done"} =>
          /\ Len(cap[c].frames) = settings.frames
          /\ cap[c].pendingShots = {}
          /\ Returned(c) => Chrome(exprs, calcSettings) = hist[c].chromeAtCall

\* C16 as stated: every render cycle keeps the chrome hidden for all its
\* screenshots and restores it between the last one and the assembly.
C16_EveryCycleCapturesHidden ==
    \A c \in Cycles : pc[c] # "idle" => ChromeDiscipline(c)

\* C16, amended: a render cycle that runs alone does.
C16_SoloCycleCapturesHidden ==
    \A c \in Cycles : (pc[c] # "idle" /\ ~hist[c].overlapped) => ChromeDiscipline(c)

C16_Witness ==
    /\ pc[1] = "done"
    /\ ~hist[1].overlapped
    /\ Len(cap[1].frames) = 1
    /\ cap[1].frames[1].chrome = AllHidden
    /\ Chrome(exprs, calcSettings) = <<TRUE, TRUE, TRUE, FALSE>>

RecorderStarted(c) ==
    \/ vid[c].recorder = "recording"
    \/ vid[c].timers # {}
    \/ hist[c].drawLog # <<>>
    \/ pc[c] \in {"recording", "stopping", "done"}

\* C18: the recorder is started and the timers are set only with every image
\* loaded; while images still load nothing is recording, set or drawn; and
\* every image that has been drawn is a loaded one.
C18_RecordAfterAllLoaded ==
    \A c \in Cycles :
        /\ RecorderStarted(c) =>
              /\ Len(vid[c].images) = settings.frames
              /\ AllLoaded(vid[c].images)
        /\ pc[c] = "loading" =>
              /\ vid[c].recorder = "inactive"
              /\ vid[c].timers = {}
              /\ hist[c].drawLog = <<>>
              /\ vid[c].canvas = 0
        /\ \A k \in 1..Len(hist[c].drawLog) :
              /\ pc[c] \in {"recording", "stopping", "done"}
              /\ vid[c].images[hist[c].drawLog[k].idx + 1] = "loaded"

C18_Witness ==
    /\ pc[1] = "recording"
    /\ Len(vid[1].images) = 3
    /\ Len(hist[1].drawLog) = 2

\* C20: from the call of render on, the start action is secret: it is so when
\* captureFrames takes its snapshot, during sampling and assembly, when the
\* file is downloaded, and in a cycle that has failed or hangs; it is shown
\* again only in a cycle that is done, which has made its download.
C20_StartActionSecretDuringCycle ==
    \A c \in Cycles :
        /\ pc[c] # "idle" => hist[c].secretAtCall
        /\ pc[c] \notin {"idle", "done"} => Find(exprs, "bounds start action").secret
        /\ pc[c] = "done" =>
              /\ ~Find(exprs, "bounds start action").secret
              /\ DownloadsOf(c) # {}
        /\ \A k \in DownloadsOf(c) : downloads[k].secret

C20_Witness ==
    /\ pc[1] = "failed"
    /\ hist[1].failure = "screenshot"
    /\ Len(cap[1].frames) = 2
    /\ Find(exprs, "bounds start action").secret

\* the cycle has made its download and the start action is shown again
Completed(c) ==
    /\ pc[c] = "done"
    /\ DownloadsOf(c) # {}
    /\ ~Find(exprs, "bounds start action").secret

\* every event the cycle waits for has come
AllEventsFired(c) ==
    /\ FirstDelivered(c, "min")
    /\ FirstDelivered(c, "max")
    /\ Len(cap[c].frames) = settings.frames
    /\ cap[c].pendingShots = {}
    /\ AllLoaded(vid[c].images)
    /\ Len(vid[c].images) = settings.frames
    /\ vid[c].timers = {}
    /\ Len(hist[c].drawLog) = settings.frames
    /\ vid[c].recorder = "inactive"
    /\ vid[c].chunks # <<>>

\* C19: with a host that answers, every cycle that has started completes; and
\* a cycle is complete only when every event it waits for has come.
C19_CycleCompletes ==
    /\ \A c \in Cycles : (pc[c] # "idle") ~> Completed(c)
    /\ [](\A c \in Cycles : Completed(c) => AllEventsFired(c))

C19_Witness ==
    /\ Completed(1)
    /\ settings.frames = 4
    /\ Len(hist[1].drawLog) = 4

====
